---------------------------- MODULE Spec2Model ----------------------------
(***************************************************************************)
(* Model of the salah prayer-times library (ammar-ahmed22/salah).          *)
(*                                                                         *)
(* Number representation.  The program computes with f64.  The model uses  *)
(* fixed point:                                                            *)
(*   - an hour value is an integer number of ticks, TicksPerSecond ticks   *)
(*     to the second (so 3600 * TicksPerSecond ticks to the hour);         *)
(*   - an angle is an integer number of millidegrees;                      *)
(*   - a sine, cosine or ratio is an integer scaled by TrigScale.          *)
(* An f64 that may be NaN is a record [nan, v]: F(v) for the number v and  *)
(* NaN for the not-a-number value.  An f64 carries a bounded number of     *)
(* significant bits (MantissaBits in the model); every quantity of the      *)
(* prayer-time computation fits in them, while a sum beyond them is rounded *)
(* to the nearest value that does (RoundF).                                 *)
(***************************************************************************)
EXTENDS Integers, Sequences, FiniteSets, TLC

VARIABLES
    pt,       \* the PrayerTimes struct: tz, lat, lng, date, tz_offset, jd, auth, school
    today,    \* the date Utc::now() falls on (the environment's clock)
    op,       \* the operation that produced the current state
    result,   \* what the last timing query returned (a NaiveTime, or a panic)
    conv      \* state of the harness that applies the pure functions (hour2time,
              \* time2hour, julian, normalize, the parsers) to drawn inputs

vars == <<pt, today, op, result, conv>>

---------------------------------------------------------------------------
(* Resolution of the fixed-point representation of f64 hours. *)
TicksPerSecond == 2

MinuteTicks == 60 * TicksPerSecond
HourTicks == 60 * MinuteTicks
DayTicks == 24 * HourTicks

(* f64 values *)
F(v) == [nan |-> FALSE, v |-> v]
NaN == [nan |-> TRUE, v |-> 0]

(* f64::trunc of a quotient a / b (b > 0): rounds toward zero. *)
TruncDiv(a, b) == IF a >= 0 THEN a \div b ELSE -((-a) \div b)

(* f64::round of a quotient a / b (b > 0): nearest integer, halves away from zero. *)
RoundDiv(a, b) == IF a >= 0 THEN (2 * a + b) \div (2 * b) ELSE -((2 * (-a) + b) \div (2 * b))

(* `x as u32` for an integral f64 x: the cast saturates, so a negative value  *)
(* becomes 0.  (The upper saturation at 2^32 - 1 is out of reach: no hour of *)
(* the model comes near it.)                                                 *)
AsU32(x) == IF x < 0 THEN 0 ELSE x

(* Significant bits of the model's f64 (53 in IEEE 754 binary64). *)
MantissaBits == 27

(* The spacing of the f64 values around a >= 0: the least power of two s   *)
(* for which a / s has at most MantissaBits bits.                           *)
RECURSIVE Spacing(_, _)
Spacing(a, s) == IF a \div s < 2 ^ MantissaBits THEN s ELSE Spacing(a, 2 * s)

(* a >= 0 rounded to a multiple of s, the nearest one, a tie going to the   *)
(* even multiple (round-half-to-even, the default rounding of IEEE 754).    *)
RoundEven(a, s) ==
    LET q == a \div s
        rem == a % s
    IN  IF 2 * rem < s \/ (2 * rem = s /\ q % 2 = 0) THEN q * s ELSE (q + 1) * s

(* The f64 nearest to the exact value v: what an f64 operation whose exact  *)
(* result is v returns.                                                     *)
RoundF(v) ==
    IF v >= 0 THEN RoundEven(v, Spacing(v, 1)) ELSE -RoundEven(-v, Spacing(-v, 1))

---------------------------------------------------------------------------
(* math: the degree-based trigonometry.  An angle is an integer number of  *)
(* millidegrees, a sine or cosine an integer scaled by TrigScale.  The     *)
(* platform's sin is a table of the sines of 0 .. 90 whole degrees with    *)
(* linear interpolation between entries; the inverse functions search it.  *)

(* k whole degrees, in millidegrees. *)
Deg(k) == k * 1000

(* sin(k degrees) * TrigScale, k = 0 .. 90, at index k + 1. *)
SinTable ==
    <<
      0, 175, 349, 523, 698, 872, 1045, 1219, 1392, 1564, 1736, 1908, 2079,
      2250, 2419, 2588, 2756, 2924, 3090, 3256, 3420, 3584, 3746, 3907, 4067, 4226,
      4384, 4540, 4695, 4848, 5000, 5150, 5299, 5446, 5592, 5736, 5878, 6018, 6157,
      6293, 6428, 6561, 6691, 6820, 6947, 7071, 7193, 7314, 7431, 7547, 7660, 7771,
      7880, 7986, 8090, 8192, 8290, 8387, 8480, 8572, 8660, 8746, 8829, 8910, 8988,
      9063, 9135, 9205, 9272, 9336, 9397, 9455, 9511, 9563, 9613, 9659, 9703, 9744,
      9781, 9816, 9848, 9877, 9903, 9925, 9945, 9962, 9976, 9986, 9994, 9998, 10000
    >>

(* Scale of sines, cosines, tangents and other ratios: the table's 1.0.    *)
TrigScale == SinTable[91]

(* math::normalize: `value % max` is Rust's truncating remainder (exact in *)
(* f64), to which max is added, in f64, when it is negative.               *)
normalize(value, max) ==
    LET normalized == value - TruncDiv(value, max) * max
    IN  IF normalized < 0 THEN RoundF(normalized + max) ELSE normalized

(* math::deg::normalize_angle *)
normalize_angle(angle) == normalize(angle, Deg(360))

(* math::time::normalize_hour *)
normalize_hour(hour) == normalize(hour, DayTicks)

(* Sine and cosine of j whole degrees, straight from the table:           *)
(* 0 <= j <= 90 for SinDegree, 0 <= j <= 180 for CosDegree.                *)
SinDegree(j) == SinTable[j + 1]
CosDegree(j) == IF j <= 90 THEN SinTable[91 - j] ELSE -SinTable[j - 89]

(* Sine of an angle of the first quadrant, 0 .. 90 degrees. *)
SinQ1(a) ==
    LET k == a \div Deg(1)
        f == a % Deg(1)
    IN  IF k >= 90 THEN SinDegree(90)
        ELSE SinDegree(k) + RoundDiv((SinDegree(k + 1) - SinDegree(k)) * f, Deg(1))

(* The first-quadrant angle with the same sine, up to sign, as the angle a *)
(* of 0 .. 360 degrees.                                                   *)
ToQ1(a) ==
    IF a <= Deg(90) THEN a
    ELSE IF a <= Deg(180) THEN Deg(180) - a
    ELSE IF a <= Deg(270) THEN a - Deg(180)
    ELSE Deg(360) - a

(* Sine of an angle a of 0 .. 360 degrees. *)
SinTurn(a) == IF a <= Deg(180) THEN SinQ1(ToQ1(a)) ELSE -SinQ1(ToQ1(a))

(* math::deg::sin *)
sin(angle) == SinTurn(normalize_angle(angle))

(* math::deg::cos *)
cos(angle) == sin(angle + Deg(90))

(* Stand-in for the very large tangent f64 gives at 90 degrees. *)
TanPole == TrigScale * TrigScale

(* math::deg::tan *)
tan(angle) ==
    LET s == sin(angle)
        c == cos(angle)
    IN  IF c = 0 THEN (IF s >= 0 THEN TanPole ELSE -TanPole)
        ELSE RoundDiv(s * TrigScale, c)

(* The whole degree k, lo <= k < hi, with cos(k) >= v > cos(k + 1), given  *)
(* cos(lo) >= v > cos(hi): a bisection of the table.                        *)
RECURSIVE AcosDegree(_, _, _)
AcosDegree(v, lo, hi) ==
    IF hi = lo + 1 THEN lo
    ELSE LET mid == (lo + hi) \div 2
         IN  IF CosDegree(mid) >= v THEN AcosDegree(v, mid, hi) ELSE AcosDegree(v, lo, mid)

(* math::deg::acos: NaN outside [-1, 1], else the angle in 0 .. 180 degrees *)
(* whose cosine is v.                                                       *)
acos(v) ==
    IF v > TrigScale \/ v < -TrigScale THEN NaN
    ELSE IF v = -TrigScale THEN F(Deg(180))
    ELSE LET k  == AcosDegree(v, 0, 180)
             c0 == CosDegree(k)
             c1 == CosDegree(k + 1)
         IN  F(Deg(k) + RoundDiv((c0 - v) * Deg(1), c0 - c1))

(* math::deg::asin: NaN outside [-1, 1], else the angle in -90 .. 90 degrees. *)
asin(v) ==
    LET a == acos(v)
    IN  IF a.nan THEN NaN ELSE F(Deg(90) - a.v)

(* cos(j) * y - sin(j) * x: positive while j degrees lies below the        *)
(* direction (x, y), negative above it.                                    *)
Side(j, y, x) == CosDegree(j) * y - SinDegree(j) * x

(* The whole degree k, lo <= k < hi, with Side(k) >= 0 > Side(k + 1), given *)
(* Side(lo) >= 0 > Side(hi): a bisection.                                   *)
RECURSIVE AtanDegree(_, _, _, _)
AtanDegree(y, x, lo, hi) ==
    IF hi = lo + 1 THEN lo
    ELSE LET mid == (lo + hi) \div 2
         IN  IF Side(mid, y, x) >= 0 THEN AtanDegree(y, x, mid, hi)
             ELSE AtanDegree(y, x, lo, mid)

(* Angle in 0 .. 90 degrees of the direction (x, y), x >= 0, y >= 0, not both 0. *)
Atan2Q1(y, x) ==
    LET m  == IF x > y THEN x ELSE y
        d  == (m + TrigScale - 1) \div TrigScale      \* bring both within TrigScale
        xs == x \div d
        ys == y \div d
    IN  IF xs = 0 THEN Deg(90)
        ELSE IF ys = 0 THEN 0
        ELSE LET k  == AtanDegree(ys, xs, 0, 90)
                 g0 == Side(k, ys, xs)
                 g1 == Side(k + 1, ys, xs)
             IN  Deg(k) + RoundDiv(g0 * (Deg(1) \div 10), (g0 - g1) \div 10)

Abs(x) == IF x < 0 THEN -x ELSE x

(* The angle of the direction (x, y), in -180 .. 180 degrees, from the     *)
(* first-quadrant angle a of (|x|, |y|).                                   *)
FromQ1(a, y, x) ==
    IF x >= 0 /\ y >= 0 THEN a
    ELSE IF x < 0 /\ y >= 0 THEN Deg(180) - a
    ELSE IF x < 0 /\ y < 0 THEN a - Deg(180)
    ELSE -a

(* math::deg::atan2, in -180 .. 180 degrees *)
atan2(y, x) ==
    IF x = 0 /\ y = 0 THEN 0 ELSE FromQ1(Atan2Q1(Abs(y), Abs(x)), y, x)

(* math::deg::acot: atan(1 / v), which is 90 degrees at v = 0 (1 / 0 is +inf). *)
acot(v) ==
    IF v = 0 THEN Deg(90) ELSE FromQ1(Atan2Q1(TrigScale, Abs(v)), v, TrigScale)

(* Degrees to hours (a division by 15), millidegrees to ticks. *)
DegToHour(a) == RoundDiv(a * 6 * TicksPerSecond, 25)

---------------------------------------------------------------------------
(* astro *)

(* chrono::NaiveDate *)
NaiveDate(y, m, d) == [year |-> y, month |-> m, day |-> d]

(* chrono's proleptic Gregorian calendar, as NaiveDate::from_ymd_opt checks it. *)
IsLeapYear(y) == y % 4 = 0 /\ (y % 100 # 0 \/ y % 400 = 0)

DaysInMonth(y, m) ==
    IF m = 2 THEN (IF IsLeapYear(y) THEN 29 ELSE 28)
    ELSE IF m \in {4, 6, 9, 11} THEN 30 ELSE 31

(* from_ymd_opt accepting day 1 .. 31 in every month. *)
from_ymd_opt_any_month_length(y, m, d) ==
    IF m >= 1 /\ m <= 12 /\ d >= 1 /\ d <= 31
    THEN [ok |-> TRUE, date |-> NaiveDate(y, m, d)]
    ELSE [ok |-> FALSE, date |-> NaiveDate(y, m, d)]

(* NaiveDate::from_ymd_opt: Some exactly for a date of the calendar. *)
from_ymd_opt(y, m, d) ==
    IF m >= 1 /\ m <= 12 /\ d >= 1 /\ d <= DaysInMonth(y, m)
    THEN [ok |-> TRUE, date |-> NaiveDate(y, m, d)]
    ELSE [ok |-> FALSE, date |-> NaiveDate(y, m, d)]

(* NaiveDate::succ_opt: the next day of the calendar. *)
succ(date) ==
    IF date.day < DaysInMonth(date.year, date.month)
    THEN NaiveDate(date.year, date.month, date.day + 1)
    ELSE IF date.month < 12 THEN NaiveDate(date.year, date.month + 1, 1)
    ELSE NaiveDate(date.year + 1, 1, 1)

(* julian without the January/February year shift. *)
julian_without_year_shift(date) ==
    LET y == date.year
        m == date.month
        d == date.day
        a == y \div 100
        b == 2 - a + (a \div 4)
    IN  2 * (((1461 * (y + 4716)) \div 4) + ((306001 * (m + 1)) \div 10000) + d + b) - 3049

(* astro::julian.  The Julian date ends in .5, so the model holds twice   *)
(* its value, an integer number of half days.                              *)
julian(date) ==
    LET shift == date.month = 1 \/ date.month = 2
        y == IF shift THEN date.year - 1 ELSE date.year
        m == IF shift THEN date.month + 12 ELSE date.month
        d == date.day
        a == y \div 100
        b == 2 - a + (a \div 4)
    IN  2 * (((1461 * (y + 4716)) \div 4) + ((306001 * (m + 1)) \div 10000) + d + b) - 3049

(* Apparent ecliptic longitude l of the Sun from its mean longitude q and  *)
(* mean anomaly g.                                                         *)
EclipticLongitude(q, g) ==
    normalize_angle(q + RoundDiv(1915 * sin(g), TrigScale) + RoundDiv(20 * sin(2 * g), TrigScale))

(* Right ascension of the Sun in ticks of the hour, normalized to 0 .. 24 h. *)
RightAscension(e, l) ==
    normalize_hour(DegToHour(atan2(RoundDiv(cos(e) * sin(l), TrigScale), cos(l))))

(* <<equation of time, declination>> from the mean longitude q, the        *)
(* ecliptic longitude l and the obliquity e.                               *)
EqtDecl(q, l, e) ==
    <<DegToHour(q) - RightAscension(e, l), asin(RoundDiv(sin(e) * sin(l), TrigScale)).v>>

(* Mean anomaly g, mean longitude q and obliquity e of the Sun, j_2000 half *)
(* days after 2000 January 1.5.                                             *)
MeanAnomaly(j_2000) ==
    normalize_angle(357529 + 492 * j_2000 + RoundDiv(80 * j_2000, 100)
                           + RoundDiv(14 * j_2000, 100000))
MeanLongitude(j_2000) ==
    normalize_angle(280459 + 492 * j_2000 + RoundDiv(82 * j_2000, 100)
                           + RoundDiv(368 * j_2000, 100000))
Obliquity(j_2000) == 23439 - RoundDiv(18 * j_2000, 100000)

(* The rest of astro::sun_coords, once j_2000 is known. *)
SunAt(q, g, e) == EqtDecl(q, EclipticLongitude(q, g), e)

(* astro::sun_coords: <<equation of time in ticks, declination in millidegrees>>. *)
(* jd and j_2000 count half days.                                           *)
SunSince(j_2000) == SunAt(MeanLongitude(j_2000), MeanAnomaly(j_2000), Obliquity(j_2000))
sun_coords(jd) == SunSince(jd - 4903090)

(* astro::zenith: 12 + tz - lng / 15 - eqt, in ticks. *)
zenith(jd, lng, tz) == 12 * HourTicks + tz - DegToHour(lng) - sun_coords(jd)[1]

(* The f64 quotient num / den of two ratios, itself a ratio; NaN stands for *)
(* the quotients no arccosine is defined on (den = 0: infinite or 0 / 0).   *)
Ratio(num, den) == IF den = 0 THEN NaN ELSE F(RoundDiv(num * TrigScale, den))

(* acos of an f64 that may already be NaN *)
AcosF(r) == IF r.nan THEN NaN ELSE acos(r.v)

(* acos((x - sin(lat) * sin(decl)) / (cos(lat) * cos(decl))): the hour     *)
(* angle, in millidegrees, at which the Sun's altitude has sine x.          *)
HourAngle(x, lat, decl) ==
    AcosF(Ratio(x - RoundDiv(sin(lat) * sin(decl), TrigScale),
                RoundDiv(cos(lat) * cos(decl), TrigScale)))

(* zenith + sign * (1 / 15) * a, NaN when the angle a is. *)
FromZenith(zen, a, sign) == IF a.nan THEN NaN ELSE F(zen + sign * DegToHour(a.v))

(* astro::horizon_hour_angle; direction is "Sunrise" or "Sunset". *)
horizon_hour_angle(angle, jd, zen, lat, direction) ==
    FromZenith(zen, HourAngle(-sin(angle), lat, sun_coords(jd)[2]),
               IF direction = "Sunrise" THEN -1 ELSE 1)

(* sin(acot(length + tan(lat - decl))) *)
ShadowSine(length, lat, decl) == sin(acot(length * TrigScale + tan(lat - decl)))

(* The rest of astro::shadow_length_hour, once decl is known. *)
ShadowHour(length, zen, lat, decl) ==
    FromZenith(zen, HourAngle(ShadowSine(length, lat, decl), lat, decl), 1)

(* astro::shadow_length_hour; length is the whole shadow ratio (1 or 2). *)
shadow_length_hour(length, jd, zen, lat) == ShadowHour(length, zen, lat, sun_coords(jd)[2])

---------------------------------------------------------------------------
(* chrono::NaiveTime *)
NaiveTime(h, m, s) == [h |-> h, m |-> m, s |-> s]

(* Placeholder where no time is held. *)
NoTime == NaiveTime(0, 0, 0)

(* NaiveTime::from_hms_opt: Some exactly for a valid time of day. *)
from_hms_opt(h, m, s) ==
    IF h < 24 /\ m < 60 /\ s < 60
    THEN [ok |-> TRUE, time |-> NaiveTime(h, m, s)]
    ELSE [ok |-> FALSE, time |-> NaiveTime(h, m, s)]

(* datetime::hour2time, on a non-NaN hour given in ticks. *)
hour2timeTicks(x, round_seconds) ==
    LET t  == TruncDiv(x, HourTicks)            \* hour.trunc()
        h0 == AsU32(t)                          \* as u32
        r  == x - t * HourTicks                 \* (hour - hour.trunc()), in ticks
        dt == TruncDiv(r, MinuteTicks)          \* d.trunc(), d = r * 60
        m0 == AsU32(dt)                         \* d as u32
        r2 == r - dt * MinuteTicks              \* (d - d.trunc()), in ticks
        s0 == AsU32(RoundDiv(r2, TicksPerSecond)) \* (.. * 60.0).round() as u32
        h1 == IF h0 = 24 THEN 0 ELSE h0
        s1 == IF s0 >= 60 THEN s0 - 60 ELSE s0
        m1 == IF s0 >= 60 THEN m0 + 1 ELSE m0
        m2 == IF m1 >= 60 THEN m1 - 60 ELSE m1
        m3 == IF round_seconds /\ s1 >= 30 THEN m2 + 1 ELSE m2
        s3 == IF round_seconds THEN 0 ELSE s1
    IN  from_hms_opt(h1, m3, s3)

(* datetime::hour2time: a NaN hour casts to 0 in every `as u32`. *)
hour2time(hour, round_seconds) ==
    IF hour.nan THEN from_hms_opt(0, 0, 0)
    ELSE hour2timeTicks(hour.v, round_seconds)

(* time2hour with the minutes divided by 3600 instead of 60. *)
time2hour_minutes_as_seconds(time) ==
    F(time.h * HourTicks + time.m * TicksPerSecond + time.s * TicksPerSecond)

(* datetime::time2hour *)
time2hour(time) == F(time.h * HourTicks + time.m * MinuteTicks + time.s * TicksPerSecond)

---------------------------------------------------------------------------
(* Strings.  A String is the sequence of its characters, each a            *)
(* one-character string.                                                    *)

(* The decimal digits and their values. *)
DigitValue ==
    [c \in {"0", "1", "2", "3", "4", "5", "6", "7", "8", "9"} |->
        CASE c = "0" -> 0 [] c = "1" -> 1 [] c = "2" -> 2 [] c = "3" -> 3 [] c = "4" -> 4
          [] c = "5" -> 5 [] c = "6" -> 6 [] c = "7" -> 7 [] c = "8" -> 8 [] c = "9" -> 9]

(* Index of the first occurrence of the character sep in s at or after i,  *)
(* Len(s) + 1 if there is none.                                             *)
RECURSIVE Find(_, _, _)
Find(s, sep, i) == IF i > Len(s) \/ s[i] = sep THEN i ELSE Find(s, sep, i + 1)

(* str::split(sep).collect(): the segments between the separators; a       *)
(* string without separator is one segment, an empty one included.          *)
RECURSIVE split(_, _)
split(s, sep) ==
    LET i == Find(s, sep, 1)
    IN  IF i > Len(s) THEN <<s>>
        ELSE <<SubSeq(s, 1, i - 1)>> \o split(SubSeq(s, i + 1, Len(s)), sep)

(* The number a nonempty sequence of digits writes. *)
RECURSIVE Decimal(_)
Decimal(digits) ==
    IF Len(digits) = 1 THEN DigitValue[digits[1]]
    ELSE 10 * Decimal(SubSeq(digits, 1, Len(digits) - 1)) + DigitValue[digits[Len(digits)]]

(* str::parse of an integer: Ok(v), or Err (empty string, invalid digit).  *)
(* The overflow error is out of reach of the strings drawn.                 *)
ParseOk(v) == [ok |-> TRUE, v |-> v]
ParseErr == [ok |-> FALSE, v |-> 0]

(* The digits of src once its sign is stripped, parsed. *)
ParseDigits(digits) ==
    IF digits # <<>> /\ \A i \in 1 .. Len(digits) : digits[i] \in DOMAIN DigitValue
    THEN ParseOk(Decimal(digits)) ELSE ParseErr

(* str::parse::<u32>: digits, after an optional "+". *)
parse_u32(src) ==
    IF src # <<>> /\ src[1] = "+" THEN ParseDigits(Tail(src)) ELSE ParseDigits(src)

(* str::parse::<i32>: digits, after an optional "+" or "-". *)
parse_i32(src) ==
    IF src # <<>> /\ src[1] = "-"
    THEN [ParseDigits(Tail(src)) EXCEPT !.v = -@]
    ELSE parse_u32(src)

(* The letters: <<lowercase, uppercase>>. *)
Letters ==
    {<<"a", "A">>, <<"b", "B">>, <<"c", "C">>, <<"d", "D">>, <<"e", "E">>, <<"f", "F">>,
     <<"g", "G">>, <<"h", "H">>, <<"i", "I">>, <<"j", "J">>, <<"k", "K">>, <<"l", "L">>,
     <<"m", "M">>, <<"n", "N">>, <<"o", "O">>, <<"p", "P">>, <<"q", "Q">>, <<"r", "R">>,
     <<"s", "S">>, <<"t", "T">>, <<"u", "U">>, <<"v", "V">>, <<"w", "W">>, <<"x", "X">>,
     <<"y", "Y">>, <<"z", "Z">>}

(* char::to_lowercase: the lowercase of an uppercase letter, any other      *)
(* character as it is.                                                      *)
LowerChar(c) ==
    IF \E l \in Letters : l[2] = c THEN (CHOOSE l \in Letters : l[2] = c)[1] ELSE c

(* to_lowercase leaving the string as it is. *)
to_lowercase_skipped(s) == s

(* str::to_lowercase *)
to_lowercase(s) == [i \in 1 .. Len(s) |-> LowerChar(s[i])]

(* Option<T> *)
Some(v) == [some |-> TRUE, v |-> v]
None == [some |-> FALSE, v |-> "None"]

---------------------------------------------------------------------------
(* times::types *)

Schools == {"Hanafi", "Shafi"}

Authorities == {"MWL", "ISNA", "Egypt", "Makkah", "Karachi", "Tehran", "Jafari"}

Timings == {"fajr", "sunrise", "dhuhr", "asr", "maghrib", "isha", "midnight"}

(* School::shadow_length *)
shadow_length(school) == IF school = "Hanafi" THEN 2 ELSE 1

(* Authority::fajr_angle, in millidegrees *)
fajr_angle(auth) ==
    CASE auth = "MWL" -> 18000
      [] auth = "ISNA" -> 15000
      [] auth = "Egypt" -> 19500
      [] auth = "Makkah" -> 18500
      [] auth = "Karachi" -> 18000
      [] auth = "Tehran" -> 17700
      [] auth = "Jafari" -> 16000

(* IshaParam::Angle (millidegrees) and IshaParam::Duration (seconds) *)
Angle(a) == [kind |-> "Angle", v |-> a]
Duration(secs) == [kind |-> "Duration", v |-> secs]

(* Authority::isha_param *)
isha_param(auth) ==
    CASE auth = "MWL" -> Angle(17000)
      [] auth = "ISNA" -> Angle(15000)
      [] auth = "Egypt" -> Angle(17500)
      [] auth = "Makkah" -> Duration(90 * 3600)      \* Duration::from_secs(90 * 3600)
      [] auth = "Karachi" -> Angle(18000)
      [] auth = "Tehran" -> Angle(14000)
      [] auth = "Jafari" -> Angle(14000)

(* Authority::desc, as the words and numbers of the string: a number of   *)
(* degrees is held in millidegrees, a number of minutes as it stands.      *)
desc(auth) ==
    CASE auth = "MWL" -> <<"Fajr", "at", 18000, "degrees", "Isha", "at", 17000, "degrees">>
      [] auth = "ISNA" -> <<"Fajr", "at", 15000, "degrees", "Isha", "at", 18000, "degrees">>
      [] auth = "Egypt" -> <<"Fajr", "at", 19500, "degrees", "Isha", "at", 17500, "degrees">>
      [] auth = "Makkah" ->
             <<"Fajr", "at", 18500, "degrees", "Isha", 90, "min", "after", "Maghrib">>
      [] auth = "Karachi" -> <<"Fajr", "at", 18000, "degrees", "Isha", "at", 18000, "degrees">>
      [] auth = "Tehran" -> <<"Fajr", "at", 17700, "degrees", "Isha", "at", 14000, "degrees">>
      [] auth = "Jafari" -> <<"Fajr", "at", 16000, "degrees", "Isha", "at", 14000, "degrees">>

(* The match of Authority::from_str on the lowercased name *)
AuthorityNamed(lowercase) ==
    CASE lowercase = <<"m", "w", "l">> -> Some("MWL")
      [] lowercase = <<"i", "s", "n", "a">> -> Some("ISNA")
      [] lowercase = <<"e", "g", "y", "p", "t">> -> Some("Egypt")
      [] lowercase = <<"m", "a", "k", "k", "a", "h">> -> Some("Makkah")
      [] lowercase = <<"k", "a", "r", "a", "c", "h", "i">> -> Some("Karachi")
      [] lowercase = <<"t", "e", "h", "r", "a", "n">> -> Some("Tehran")
      [] lowercase = <<"j", "a", "f", "a", "r", "i">> -> Some("Jafari")
      [] OTHER -> None

(* Authority::from_str *)
Authority_from_str(name) == AuthorityNamed(to_lowercase(name))

(* Authority::to_str *)
Authority_to_str(auth) ==
    CASE auth = "MWL" -> <<"M", "W", "L">>
      [] auth = "ISNA" -> <<"I", "S", "N", "A">>
      [] auth = "Egypt" -> <<"E", "g", "y", "p", "t">>
      [] auth = "Makkah" -> <<"M", "a", "k", "k", "a", "h">>
      [] auth = "Karachi" -> <<"K", "a", "r", "a", "c", "h", "i">>
      [] auth = "Tehran" -> <<"T", "e", "h", "r", "a", "n">>
      [] auth = "Jafari" -> <<"J", "a", "f", "a", "r", "i">>

(* The match of Timing::from_str on the lowercased name *)
TimingNamed(lowercase) ==
    CASE lowercase = <<"f", "a", "j", "r">> -> Some("fajr")
      [] lowercase = <<"s", "u", "n", "r", "i", "s", "e">> -> Some("sunrise")
      [] lowercase = <<"d", "h", "u", "h", "r">> -> Some("dhuhr")
      [] lowercase = <<"a", "s", "r">> -> Some("asr")
      [] lowercase = <<"m", "a", "g", "h", "r", "i", "b">> -> Some("maghrib")
      [] lowercase = <<"i", "s", "h", "a">> -> Some("isha")
      [] lowercase = <<"m", "i", "d", "n", "i", "g", "h", "t">> -> Some("midnight")
      [] OTHER -> None

(* Timing::from_str *)
Timing_from_str(name) == TimingNamed(to_lowercase(name))

(* Timing::to_str *)
Timing_to_str(t) ==
    CASE t = "fajr" -> <<"f", "a", "j", "r">>
      [] t = "sunrise" -> <<"s", "u", "n", "r", "i", "s", "e">>
      [] t = "dhuhr" -> <<"d", "h", "u", "h", "r">>
      [] t = "asr" -> <<"a", "s", "r">>
      [] t = "maghrib" -> <<"m", "a", "g", "h", "r", "i", "b">>
      [] t = "isha" -> <<"i", "s", "h", "a">>
      [] t = "midnight" -> <<"m", "i", "d", "n", "i", "g", "h", "t">>

(* cli: CommonConfig::parsed_auth, and parsed_timings on one name: the      *)
(* variant, or the error "... is not valid!".                               *)
ParseError == [ok |-> FALSE, v |-> "is not valid!"]
Parsed(option) == IF option.some THEN [ok |-> TRUE, v |-> option.v] ELSE ParseError
parsed_auth(auth) == Parsed(Authority_from_str(auth))
parsed_timing(timing) == Parsed(Timing_from_str(timing))

---------------------------------------------------------------------------
(* The timezone database (chrono_tz), for the zones and the year modelled. *)

Timezones == {"America/Toronto", "UTC", "Asia/Riyadh"}

(* Whether date d is on or after month m, day n of its year. *)
OnOrAfter(d, m, n) == d.month > m \/ (d.month = m /\ d.day >= n)

(* datetime::get_tz_offset: the zone's offset from UTC at a date, in ticks. *)
(* America/Toronto keeps daylight time (UTC-4) from 2024-03-10 until       *)
(* 2024-11-03 and standard time (UTC-5) otherwise.                          *)
get_tz_offset(tz, date) ==
    CASE tz = "America/Toronto" ->
             IF OnOrAfter(date, 3, 10) /\ ~OnOrAfter(date, 11, 3)
             THEN -4 * HourTicks ELSE -5 * HourTicks
      [] tz = "UTC" -> 0
      [] tz = "Asia/Riyadh" -> 3 * HourTicks

(* datetime::tz_offset: the zone's offset at Utc::now(), whose date is now. *)
tz_offset(tz, now) == get_tz_offset(tz, now)

---------------------------------------------------------------------------
(* times::PrayerTimes *)

(* PrayerTimes::new; now is the date of Utc::now() in the default zone. *)
new(lat, lng, now) ==
    [tz |-> "America/Toronto", lat |-> lat, lng |-> lng, date |-> now,
     tz_offset |-> tz_offset("America/Toronto", now), jd |-> julian(now),
     auth |-> "ISNA", school |-> "Hanafi"]

(* with_date leaving the cached Julian date as it was. *)
with_date_keeps_jd(self, date) == [self EXCEPT !.date = date]

(* PrayerTimes::with_date *)
with_date(self, date) == [self EXCEPT !.date = date, !.jd = julian(date)]

(* with_timezone rebuilding the struct from new(), which resets the date, *)
(* the authority and the school to their defaults.                        *)
with_timezone_rebuilds(self, tz, now) ==
    [new(self.lat, self.lng, now) EXCEPT !.tz = tz, !.tz_offset = tz_offset(tz, now)]

(* PrayerTimes::with_timezone *)
with_timezone(self, tz, now) == [self EXCEPT !.tz = tz, !.tz_offset = tz_offset(tz, now)]

(* PrayerTimes::with_authority *)
with_authority(self, auth) == [self EXCEPT !.auth = auth]

(* PrayerTimes::with_school *)
with_school(self, school) == [self EXCEPT !.school = school]

(* What a timing query hands back: a NaiveTime, or the process panics. *)
Returned(time) == [panic |-> FALSE, time |-> time]
Panic == [panic |-> TRUE, time |-> NoTime]

(* Result::expect: the Ok value, or a panic on Err. *)
expect(r) == IF r.ok THEN Returned(r.time) ELSE Panic

(* PrayerTimes::zenith (private) *)
self_zenith(self) == zenith(self.jd, self.lng, self.tz_offset)

(* The hour PrayerTimes::fajr passes to hour2time. *)
fajr_hour(self) ==
    horizon_hour_angle(fajr_angle(self.auth), self.jd, self_zenith(self), self.lat, "Sunrise")

(* PrayerTimes::fajr *)
fajr(self) == expect(hour2time(fajr_hour(self), TRUE))

(* PrayerTimes::dhuhr *)
dhuhr(self) == expect(hour2time(F(self_zenith(self)), TRUE))

(* The hour PrayerTimes::asr passes to hour2time. *)
asr_hour(self) ==
    shadow_length_hour(shadow_length(self.school), self.jd, self_zenith(self), self.lat)

(* PrayerTimes::asr *)
asr(self) == expect(hour2time(asr_hour(self), TRUE))

(* The hour PrayerTimes::maghrib passes to hour2time. *)
maghrib_hour(self) ==
    horizon_hour_angle(833, self.jd, self_zenith(self), self.lat, "Sunset")

(* PrayerTimes::maghrib *)
maghrib(self) == expect(hour2time(maghrib_hour(self), TRUE))

(* NaiveTime + std::time::Duration: the time of day d seconds later, wrapping *)
(* around midnight.                                                           *)
AddDuration(time, d) ==
    LET t == (time.h * 3600 + time.m * 60 + time.s + d) % 86400
    IN  NaiveTime(t \div 3600, (t % 3600) \div 60, t % 60)

(* The hour the Duration arm of PrayerTimes::isha passes to hour2time. *)
IshaDurationHour(maghrib_) == time2hour(maghrib_.time)

(* PrayerTimes::isha, the IshaParam::Duration(d) arm, maghrib being what  *)
(* self.maghrib() returned: it panics where maghrib did, else it is the     *)
(* rounded sunset plus d.                                                   *)
IshaAfter(maghrib_, d) ==
    IF maghrib_.panic THEN Panic
    ELSE IF ~hour2time(IshaDurationHour(maghrib_), TRUE).ok THEN Panic
    ELSE Returned(AddDuration(hour2time(IshaDurationHour(maghrib_), TRUE).time, d))

(* The hour the Angle arm of PrayerTimes::isha passes to hour2time. *)
IshaAngleHour(self, a) ==
    horizon_hour_angle(a, self.jd, self_zenith(self), self.lat, "Sunset")

(* PrayerTimes::isha, by its IshaParam *)
IshaBy(self, param) ==
    IF param.kind = "Angle" THEN expect(hour2time(IshaAngleHour(self, param.v), TRUE))
    ELSE IshaAfter(maghrib(self), param.v)

(* PrayerTimes::isha *)
isha(self) == IshaBy(self, isha_param(self.auth))

(* sunrise_hour computed at the authority's dawn angle instead of 0.833. *)
sunrise_hour_at_dawn_angle(self) ==
    horizon_hour_angle(fajr_angle(self.auth), self.jd, self_zenith(self), self.lat, "Sunrise")

(* The hour PrayerTimes::sunrise passes to hour2time. *)
sunrise_hour(self) ==
    horizon_hour_angle(833, self.jd, self_zenith(self), self.lat, "Sunrise")

(* PrayerTimes::sunrise *)
sunrise(self) == expect(hour2time(sunrise_hour(self), TRUE))

(* The hour PrayerTimes::midnight passes to hour2time, from the hours of  *)
(* the sunrise and sunset times.                                           *)
MidHour(rise, set) == F(set.v + normalize_hour(rise.v - set.v) \div 2)

(* PrayerTimes::midnight, sunrise_ and maghrib_ being what self.sunrise()  *)
(* and self.maghrib() returned.                                            *)
MidnightOf(sunrise_, maghrib_) ==
    IF sunrise_.panic \/ maghrib_.panic THEN Panic
    ELSE expect(hour2time(MidHour(time2hour(sunrise_.time), time2hour(maghrib_.time)), TRUE))

(* PrayerTimes::midnight *)
midnight(self) == MidnightOf(sunrise(self), maghrib(self))

(* PrayerTimes::timing *)
timing(self, t) ==
    CASE t = "fajr" -> fajr(self)
      [] t = "sunrise" -> sunrise(self)
      [] t = "dhuhr" -> dhuhr(self)
      [] t = "asr" -> asr(self)
      [] t = "maghrib" -> maghrib(self)
      [] t = "isha" -> isha(self)
      [] t = "midnight" -> midnight(self)

---------------------------------------------------------------------------
(* Conversion harness: hour2time and time2hour applied to drawn inputs.    *)
(* conv.pc tells what conv holds: an hour to convert ("hour"), a time to   *)
(* convert ("time"), or the Err of a failed hour2time ("err").             *)

(* Longest chain of conversions the harness applies to one input. *)
MaxConvSteps == 2

(* The fractional hours 0 .. 24 drawn as inputs, one per tick. *)
HourInputs == 0 .. DayTicks

(* The clock times drawn as inputs. *)
TimeInputs == {NaiveTime(h, m, s) : h \in 0 .. 23, m \in 0 .. 59, s \in {0, 30}}

ConvIdle ==
    [pc |-> "idle", from |-> "none", hour0 |-> 0, time0 |-> NoTime,
     round_seconds |-> FALSE, hour |-> F(0), res |-> from_hms_opt(0, 0, 0), steps |-> 0]

ConvInit ==
    \/ \E x \in HourInputs, r \in BOOLEAN :
          conv = [ConvIdle EXCEPT !.pc = "hour", !.from = "hour", !.hour0 = x,
                                  !.hour = F(x), !.round_seconds = r]
    \/ \E t \in TimeInputs, r \in BOOLEAN :
          conv = [ConvIdle EXCEPT !.pc = "time", !.from = "time", !.time0 = t,
                                  !.res = [ok |-> TRUE, time |-> t], !.round_seconds = r]

(* Call datetime::hour2time on the hour held. *)
Hour2Time ==
    /\ conv.pc = "hour"
    /\ conv.steps < MaxConvSteps
    /\ LET r == hour2time(conv.hour, conv.round_seconds)
       IN  conv' = [conv EXCEPT !.res = r, !.pc = IF r.ok THEN "time" ELSE "err",
                                !.steps = @ + 1]
    /\ UNCHANGED <<pt, today, op, result>>

(* Call datetime::time2hour on the time held. *)
Time2Hour ==
    /\ conv.pc = "time"
    /\ conv.steps < MaxConvSteps
    /\ conv' = [conv EXCEPT !.hour = time2hour(conv.res.time), !.pc = "hour",
                            !.steps = @ + 1]
    /\ UNCHANGED <<pt, today, op, result>>

IdleInit == pt = 0 /\ today = 0 /\ op = "none" /\ result = 0

InitTime == IdleInit /\ ConvInit
NextTime == Hour2Time \/ Time2Hour
SpecTime == InitTime /\ [][NextTime]_vars

---------------------------------------------------------------------------
(* Julian-date harness: astro::julian applied to every date of a range of  *)
(* years, and to the days that follow it.                                   *)

(* The years drawn reach YearSpan years before and after 2000. *)
YearSpan == 101

(* How many days the harness walks on from a drawn date. *)
MaxDaySteps == 1

(* The dates drawn as inputs: every date of the calendar in those years. *)
JulianDates ==
    {date \in [year : (2000 - YearSpan) .. (2000 + YearSpan), month : 1 .. 12, day : 1 .. 31] :
         from_ymd_opt(date.year, date.month, date.day).ok}

(* conv for this harness: the date held, its Julian date jd once computed  *)
(* (pc = "jd"), and prev, the Julian date of the day before where the       *)
(* harness walked on from it.                                               *)
JulianInit ==
    \E date \in JulianDates :
        conv = [pc |-> "date", date |-> date, jd |-> 0, prev |-> 0, steps |-> 0]

(* Call astro::julian on the date held. *)
Julian ==
    /\ conv.pc = "date"
    /\ conv' = [conv EXCEPT !.jd = julian(conv.date), !.pc = "jd"]
    /\ UNCHANGED <<pt, today, op, result>>

(* Go on to the next day, keeping the Julian date just computed. *)
NextDay ==
    /\ conv.pc = "jd"
    /\ conv.steps < MaxDaySteps
    /\ conv' = [conv EXCEPT !.date = succ(conv.date), !.prev = conv.jd, !.pc = "date",
                            !.steps = @ + 1]
    /\ UNCHANGED <<pt, today, op, result>>

InitJulian == IdleInit /\ JulianInit
NextJulian == Julian \/ NextDay
SpecJulian == InitJulian /\ [][NextJulian]_vars

---------------------------------------------------------------------------
(* Normalization harness: math::normalize applied to drawn values and      *)
(* moduli.                                                                  *)

(* The values drawn are the whole numbers -MaxValue .. MaxValue. *)
MaxValue == 750

(* The moduli drawn are the whole numbers 1 .. MaxModulus (24 and 360 among *)
(* them) and the first f64 above 2 ^ (MantissaBits + 2), where the f64      *)
(* values are 8 apart.                                                       *)
MaxModulus == 360
LargeModulus == 2 ^ (MantissaBits + 2) + 8

Values == (-MaxValue) .. MaxValue
Moduli == (1 .. MaxModulus) \cup {LargeModulus}

(* conv for this harness: the arguments, and r once normalize has returned  *)
(* (pc = "normalized").                                                     *)
NormalizeInit ==
    \E value \in Values, max \in Moduli :
        conv = [pc |-> "args", value |-> value, max |-> max, r |-> 0]

(* Call math::normalize on the arguments held. *)
Normalize ==
    /\ conv.pc = "args"
    /\ conv' = [conv EXCEPT !.r = normalize(conv.value, conv.max), !.pc = "normalized"]
    /\ UNCHANGED <<pt, today, op, result>>

InitNormalize == IdleInit /\ NormalizeInit
NextNormalize == Normalize
SpecNormalize == InitNormalize /\ [][NextNormalize]_vars

---------------------------------------------------------------------------
(* The library in use: a configuration is built by new, changed by the     *)
(* with_* setters and asked for timings.  A panic aborts the process, so    *)
(* nothing follows it.                                                      *)

(* <<latitude, longitude>> in millidegrees: Toronto (the coordinates of     *)
(* main.rs), Makkah, Tromso.                                                *)
Coordinates == {<<43880, -78942>>, <<21420, 39830>>, <<69650, 18960>>}

(* The dates configured, and the dates Utc::now() may fall on. *)
Dates == {NaiveDate(2024, 2, 9), NaiveDate(2024, 6, 21), NaiveDate(2024, 12, 21)}

(* No timing has been returned (the last call was new or a setter). *)
NoResult == Returned(NoTime)

Alive == ~result.panic

Init ==
    /\ today \in Dates
    /\ \E c \in Coordinates : pt = new(c[1], c[2], today)
    /\ op = "new"
    /\ result = NoResult
    /\ conv = ConvIdle

WithDate ==
    /\ Alive
    /\ \E date \in Dates : pt' = with_date(pt, date)
    /\ op' = "with_date"
    /\ result' = NoResult
    /\ UNCHANGED <<today, conv>>

WithTimezone ==
    /\ Alive
    /\ \E tz \in Timezones : pt' = with_timezone(pt, tz, today)
    /\ op' = "with_timezone"
    /\ result' = NoResult
    /\ UNCHANGED <<today, conv>>

WithAuthority ==
    /\ Alive
    /\ \E auth \in Authorities : pt' = with_authority(pt, auth)
    /\ op' = "with_authority"
    /\ result' = NoResult
    /\ UNCHANGED <<today, conv>>

WithSchool ==
    /\ Alive
    /\ \E school \in Schools : pt' = with_school(pt, school)
    /\ op' = "with_school"
    /\ result' = NoResult
    /\ UNCHANGED <<today, conv>>

Fajr ==
    /\ Alive
    /\ result' = fajr(pt)
    /\ op' = "fajr"
    /\ UNCHANGED <<pt, today, conv>>

Sunrise ==
    /\ Alive
    /\ result' = sunrise(pt)
    /\ op' = "sunrise"
    /\ UNCHANGED <<pt, today, conv>>

Dhuhr ==
    /\ Alive
    /\ result' = dhuhr(pt)
    /\ op' = "dhuhr"
    /\ UNCHANGED <<pt, today, conv>>

Asr ==
    /\ Alive
    /\ result' = asr(pt)
    /\ op' = "asr"
    /\ UNCHANGED <<pt, today, conv>>

Maghrib ==
    /\ Alive
    /\ result' = maghrib(pt)
    /\ op' = "maghrib"
    /\ UNCHANGED <<pt, today, conv>>

Isha ==
    /\ Alive
    /\ result' = isha(pt)
    /\ op' = "isha"
    /\ UNCHANGED <<pt, today, conv>>

Midnight ==
    /\ Alive
    /\ result' = midnight(pt)
    /\ op' = "midnight"
    /\ UNCHANGED <<pt, today, conv>>

(* PrayerTimes::timing, which dispatches to the query named. *)
TimingQuery ==
    /\ Alive
    /\ \E t \in Timings : result' = timing(pt, t) /\ op' = t
    /\ UNCHANGED <<pt, today, conv>>

Next ==
    \/ WithDate \/ WithTimezone \/ WithAuthority \/ WithSchool
    \/ Fajr \/ Sunrise \/ Dhuhr \/ Asr \/ Maghrib \/ Isha \/ Midnight
    \/ TimingQuery

Spec == Init /\ [][Next]_vars

---------------------------------------------------------------------------
(* datetime::str2date *)

(* Result<NaiveDate>: Ok(date), or an error value, which holds no date. *)
DateOk(date) == [ok |-> TRUE, date |-> date]
DateErr == [ok |-> FALSE, date |-> NaiveDate(0, 0, 0)]

(* The match on NaiveDate::from_ymd_opt that ends str2date. *)
DateOf(naive) == IF naive.ok THEN DateOk(naive.date) ELSE DateErr

(* str2date once the string is split: the three parses, each returning the *)
(* error of the first part that fails.                                      *)
ParsedDate(year, month, day) ==
    IF ~year.ok \/ ~month.ok \/ ~day.ok THEN DateErr
    ELSE DateOf(from_ymd_opt(year.v, month.v, day.v))

DateFromParts(parts) ==
    IF Len(parts) # 3 THEN DateErr
    ELSE ParsedDate(parse_i32(parts[1]), parse_u32(parts[2]), parse_u32(parts[3]))

(* datetime::str2date; now is the date of Utc::now() in the timezone given. *)
str2date(date, now) ==
    IF date = <<"t", "o", "d", "a", "y">> THEN DateOk(now)
    ELSE DateFromParts(split(date, "-"))

(* Date-string harness: str2date applied to drawn strings. *)

(* Longest string drawn, in characters. *)
MaxDateLen == 6

(* The characters the strings drawn are made of. *)
DateAlphabet == {"0", "1", "2", "3", "9", "-", "+"}

(* Strings drawn besides: the token today and strings close to it, the date *)
(* of main.rs, a day its month does not have, a segment that is no number.  *)
DateSamples ==
    {<<"t", "o", "d", "a", "y">>, <<"T", "o", "d", "a", "y">>,
     <<"t", "o", "d", "a">>, <<"t", "o", "d", "a", "y", "-">>,
     <<"2", "0", "2", "4", "-", "0", "2", "-", "0", "9">>,
     <<"2", "0", "2", "4", "-", "0", "2", "-", "3", "0">>,
     <<"2", "0", "2", "4", "-", "x", "-", "0", "9">>}

(* The strings drawn: every string of up to MaxDateLen characters of the    *)
(* alphabet, and the samples.                                                *)
DateStrings == UNION {[1 .. n -> DateAlphabet] : n \in 0 .. MaxDateLen} \cup DateSamples

(* conv for this harness: the string held and, once str2date has returned  *)
(* (pc = "parsed"), its result.                                             *)
DateInit ==
    \E date \in DateStrings : conv = [pc |-> "str", date |-> date, res |-> DateErr]

(* Call datetime::str2date on the string held. *)
Str2Date ==
    /\ conv.pc = "str"
    /\ conv' = [conv EXCEPT !.res = str2date(conv.date, today), !.pc = "parsed"]
    /\ UNCHANGED <<pt, today, op, result>>

(* Utc::now() falls on one of the dates of the library's clock. *)
InitDate == pt = 0 /\ op = "none" /\ result = 0 /\ today \in Dates /\ DateInit
NextDate == Str2Date
SpecDate == InitDate /\ [][NextDate]_vars

---------------------------------------------------------------------------
(* Name harness: Authority::from_str and Timing::from_str, as the CLI      *)
(* calls them, applied to drawn names.                                      *)

(* The uppercase of a lowercase letter, any other character as it is. *)
UpperChar(c) ==
    IF \E l \in Letters : l[1] = c THEN (CHOOSE l \in Letters : l[1] = c)[2] ELSE c

(* The identifiers: what to_str returns for the variants. *)
Identifiers ==
    {Authority_to_str(a) : a \in Authorities} \cup {Timing_to_str(t) : t \in Timings}

(* An identifier in every mix of uppercase and lowercase. *)
CaseVariants(w) ==
    {[i \in 1 .. Len(w) |-> IF i \in U THEN UpperChar(w[i]) ELSE LowerChar(w[i])] :
         U \in SUBSET (1 .. Len(w))}

(* Strings close to an identifier: its last character dropped, a character *)
(* added after or before it.                                                *)
NearMisses(w) ==
    {SubSeq(w, 1, Len(w) - 1), w \o <<"s">>, w \o <<" ">>, <<" ">> \o w}

(* The names drawn. *)
NameStrings ==
    UNION {CaseVariants(w) \cup NearMisses(w) : w \in Identifiers} \cup {<<>>}

(* conv for this harness: the name held and, once parsed (pc = "authority" *)
(* or "timing"), what from_str returned and what the CLI reports.           *)
NameInit ==
    \E name \in NameStrings :
        conv = [pc |-> "name", name |-> name, res |-> None, cli |-> ParseError]

(* cli parsed_auth: Authority::from_str on the name held. *)
AuthorityFromStr ==
    /\ conv.pc = "name"
    /\ conv' = [conv EXCEPT !.res = Authority_from_str(conv.name),
                            !.cli = parsed_auth(conv.name), !.pc = "authority"]
    /\ UNCHANGED <<pt, today, op, result>>

(* cli parsed_timings: Timing::from_str on the name held. *)
TimingFromStr ==
    /\ conv.pc = "name"
    /\ conv' = [conv EXCEPT !.res = Timing_from_str(conv.name),
                            !.cli = parsed_timing(conv.name), !.pc = "timing"]
    /\ UNCHANGED <<pt, today, op, result>>

InitNames == IdleInit /\ NameInit
NextNames == AuthorityFromStr \/ TimingFromStr
SpecNames == InitNames /\ [][NextNames]_vars

---------------------------------------------------------------------------
(* Properties of the conversions, checked under SpecTime.                  *)

(* The minute of the day (0 .. 1439) nearest to x ticks: x is rounded to   *)
(* the second, seconds >= 30 round the minute up, and 24:00 wraps to 00:00. *)
NearestMinute(x) == ((RoundDiv(x, TicksPerSecond) + 30) \div 60) % 1440

(* The second of the day (0 .. 86399) nearest to x ticks, 24:00:00 wrapping *)
(* to 00:00:00.                                                             *)
NearestSecond(x) == RoundDiv(x, TicksPerSecond) % 86400

MinuteOfDay(time) == time.h * 60 + time.m
SecondOfDay(time) == time.h * 3600 + time.m * 60 + time.s

(* The harness has applied one hour2time to the drawn hour. *)
ConvertedHour == conv.from = "hour" /\ conv.steps = 1

(* C1: for every fractional hour in [0, 24), hour2time(hour, true) returns *)
(* Ok with second = 0 and the time equal to the hour rounded to the nearest *)
(* whole minute; it never returns the out-of-range error.                   *)
C1_RoundsToMinute ==
    (ConvertedHour /\ conv.round_seconds /\ conv.hour0 < DayTicks)
        => /\ conv.res.ok
           /\ conv.res.time.s = 0
           /\ MinuteOfDay(conv.res.time) = NearestMinute(conv.hour0)

(* C2: for every fractional hour in [0, 24] and round_seconds = false,     *)
(* hour2time returns the clock time whose total seconds equal the hour      *)
(* rounded to the nearest second, modulo 24 h (60 seconds carry into the    *)
(* minutes, 60 minutes into the hours, hour 24 wraps to 0).                 *)
C2_RoundsToSecond ==
    (ConvertedHour /\ ~conv.round_seconds /\ conv.hour0 <= DayTicks)
        => /\ conv.res.ok
           /\ SecondOfDay(conv.res.time) = NearestSecond(conv.hour0)

(* C10: round trip.  For every clock time t with second = 0,               *)
(* hour2time(time2hour(t), true) = t; for every hour x in [0, 24) that is a *)
(* whole number of minutes, hour2time(x, true) is Ok and                    *)
(* time2hour(hour2time(x, true)) = x.                                       *)
C10_RoundTrip ==
    /\ (conv.from = "time" /\ conv.time0.s = 0 /\ conv.round_seconds /\ conv.steps = 2)
           => conv.res = [ok |-> TRUE, time |-> conv.time0]
    /\ (conv.from = "hour" /\ conv.hour0 < DayTicks /\ conv.hour0 % MinuteTicks = 0
            /\ conv.round_seconds /\ conv.steps >= 1)
           => /\ conv.res.ok
              /\ conv.steps = 2 => conv.hour = F(conv.hour0)

(* C10's case: the hour 17.4 has been converted to 17:24:00 and back to 17.4. *)
C10_Witness ==
    /\ conv.from = "hour" /\ conv.round_seconds /\ conv.steps = 2
    /\ conv.hour0 = 17 * HourTicks + 24 * MinuteTicks
    /\ conv.res.time = NaiveTime(17, 24, 0)
    /\ conv.hour = F(conv.hour0)

---------------------------------------------------------------------------
(* Properties of PrayerTimes, checked under Spec.                          *)

(* The last call was the timing query t. *)
Asked(t) == op = t

(* The last call handed a NaiveTime back to its caller. *)
ReturnsTime == ~result.panic

(* The solver's hour for the query t is undefined (NaN): the arccosine's   *)
(* argument lies outside [-1, 1].  isha by a Duration rests on maghrib's.   *)
Undefined(self, t) ==
    CASE t = "fajr" -> fajr_hour(self).nan
      [] t = "sunrise" -> sunrise_hour(self).nan
      [] t = "asr" -> asr_hour(self).nan
      [] t = "maghrib" -> maghrib_hour(self).nan
      [] t = "isha" -> IF isha_param(self.auth).kind = "Angle"
                       THEN IshaAngleHour(self, isha_param(self.auth).v).nan
                       ELSE maghrib_hour(self).nan

(* C3: when the solver's arccosine argument lies outside [-1, 1], fajr,    *)
(* sunrise, asr, maghrib and isha do not hand back a clock time (they yield *)
(* a 'no such time' error instead of a time derived from the NaN hour).     *)
C3_NoTimeFromNaN ==
    \A t \in {"fajr", "sunrise", "asr", "maghrib", "isha"} :
        (Asked(t) /\ Undefined(pt, t)) => ~ReturnsTime

(* C4: no timing query aborts the process: a failed hour-to-time conversion *)
(* never surfaces as a panic.                                               *)
C4_NoPanic == ~result.panic

(* C5: for every pair of sunrise and sunset times of a configuration,      *)
(* midnight() returns the valid clock time sunset + normalize(sunrise -     *)
(* sunset, 24) / 2, modulo 24 hours, rounded to the minute.                 *)
C5_MidnightIsMidpoint ==
    (Asked("midnight") /\ ~sunrise(pt).panic /\ ~maghrib(pt).panic)
        => /\ ~result.panic
           /\ result.time.s = 0
           /\ MinuteOfDay(result.time) =
                  NearestMinute(MidHour(time2hour(sunrise(pt).time),
                                        time2hour(maghrib(pt).time)).v)

(* C6: for the authority Makkah, isha() returns the clock time exactly 90  *)
(* minutes after maghrib() of the same configuration.                       *)
C6_MakkahIshaAfter90Min ==
    (Asked("isha") /\ pt.auth = "Makkah" /\ ~maghrib(pt).panic)
        => result = Returned(AddDuration(maghrib(pt).time, 90 * 60))

(* C7: after any sequence of with_date and with_timezone calls, the cached *)
(* tz_offset is the UTC offset of the configured timezone on the configured *)
(* date.                                                                    *)
C7_OffsetOfConfiguredDate == pt.tz_offset = get_tz_offset(pt.tz, pt.date)

(* C8: each setter changes only its own field and that field's derived     *)
(* field (with_date: date and jd; with_timezone: tz and tz_offset;          *)
(* with_authority: auth; with_school: school), no setter changes lat or     *)
(* lng, and no timing query changes any field.                              *)
C8_Frame ==
    [][/\ op' = "with_date" =>
              pt' = [pt EXCEPT !.date = pt'.date, !.jd = pt'.jd]
       /\ op' = "with_timezone" =>
              pt' = [pt EXCEPT !.tz = pt'.tz, !.tz_offset = pt'.tz_offset]
       /\ op' = "with_authority" => pt' = [pt EXCEPT !.auth = pt'.auth]
       /\ op' = "with_school" => pt' = [pt EXCEPT !.school = pt'.school]
       /\ op' \in Timings => pt' = pt]_vars

(* C8's case: with_timezone has replaced the zone and its offset on a      *)
(* configuration whose date, authority and school are no longer the         *)
(* defaults of new().                                                       *)
C8_Witness ==
    /\ op = "with_timezone" /\ pt.tz = "Asia/Riyadh"
    /\ pt.tz_offset = 3 * HourTicks
    /\ pt.date # today /\ pt.auth = "Makkah" /\ pt.school = "Shafi"

(* with_authority has just replaced an authority whose night criterion is  *)
(* an angle by one whose night criterion is a duration.                     *)
AngleToDuration ==
    /\ op' = "with_authority"
    /\ isha_param(pt.auth).kind = "Angle"
    /\ isha_param(pt'.auth).kind = "Duration"

(* C9 as stated: changing the authority from an angle-based to a           *)
(* fixed-duration night criterion leaves fajr(), sunrise() and maghrib()    *)
(* as they were.                                                            *)
C9_OnlyIshaChanges ==
    [][AngleToDuration =>
           /\ fajr(pt') = fajr(pt)
           /\ sunrise(pt') = sunrise(pt)
           /\ maghrib(pt') = maghrib(pt)]_vars

(* C9 as amended: that change leaves sunrise() and maghrib() (and dhuhr()  *)
(* and asr()) as they were; fajr() follows the new authority's dawn angle.  *)
C9_SunriseMaghribUnchanged ==
    [][AngleToDuration =>
           /\ sunrise(pt') = sunrise(pt)
           /\ maghrib(pt') = maghrib(pt)
           /\ dhuhr(pt') = dhuhr(pt)
           /\ asr(pt') = asr(pt)]_vars

(* C9's case: the authority has been changed to Makkah; against ISNA on    *)
(* the same configuration, fajr() differs and sunrise() and maghrib() are   *)
(* the same returned times.                                                 *)
C9_Witness ==
    /\ op = "with_authority" /\ pt.auth = "Makkah"
    /\ ~sunrise(pt).panic /\ ~maghrib(pt).panic /\ ~fajr(pt).panic
    /\ ~Undefined(pt, "fajr") /\ ~Undefined(pt, "sunrise")
    /\ fajr(pt) # fajr(with_authority(pt, "ISNA"))
    /\ sunrise(pt) = sunrise(with_authority(pt, "ISNA"))
    /\ maghrib(pt) = maghrib(with_authority(pt, "ISNA"))

---------------------------------------------------------------------------
(* Properties of astro::julian, checked under SpecJulian.                  *)

(* Days of the calendar before year y and before month m of year y, and    *)
(* the number of days from 2000-01-01 to a date (negative before it).       *)
DaysBeforeYear(y) == 365 * (y - 1) + ((y - 1) \div 4) - ((y - 1) \div 100) + ((y - 1) \div 400)

RECURSIVE DaysBeforeMonth(_, _)
DaysBeforeMonth(y, m) ==
    IF m = 1 THEN 0 ELSE DaysBeforeMonth(y, m - 1) + DaysInMonth(y, m - 1)

DaysSince2000(date) ==
    DaysBeforeYear(date.year) + DaysBeforeMonth(date.year, date.month) + date.day - 1
        - DaysBeforeYear(2000)

(* C11: for every valid date d of the years drawn, julian(d) = 2451544.5 + *)
(* (number of days from 2000-01-01 to d); so consecutive days differ by     *)
(* exactly 1 and julian(2000-01-01) = 2451544.5.  (jd holds twice the       *)
(* Julian date.)                                                            *)
C11_JulianCountsDays ==
    conv.pc = "jd" =>
        /\ conv.jd = 4903089 + 2 * DaysSince2000(conv.date)
        /\ conv.steps >= 1 => conv.jd = conv.prev + 2
        /\ conv.date = NaiveDate(2000, 1, 1) => conv.jd = 4903089

(* C11's case: julian has been applied to 2000-02-29 and then to the day    *)
(* after it, 2000-03-01, across the leap day and the year-shift boundary.   *)
C11_Witness ==
    /\ conv.pc = "jd" /\ conv.steps = 1
    /\ conv.date = NaiveDate(2000, 3, 1)
    /\ conv.prev = 4903089 + 2 * 59
    /\ conv.jd = 4903089 + 2 * 60

---------------------------------------------------------------------------
(* Properties of math::normalize, checked under SpecNormalize.             *)

(* C12: for every modulus m > 0 and every finite x, normalize(x, m) returns *)
(* r with 0 <= r < m and x - r an integer multiple of m.                    *)
C12_NormalizeIsModulo ==
    conv.pc = "normalized" =>
        /\ 0 <= conv.r /\ conv.r < conv.max
        /\ (conv.value - conv.r) % conv.max = 0

---------------------------------------------------------------------------
(* Further properties of PrayerTimes, checked under Spec.                  *)

(* The clock time a precedes the clock time b. *)
Before(a, b) == SecondOfDay(a) < SecondOfDay(b)

(* C13: the clock times returned by one configuration satisfy              *)
(* fajr() < sunrise() < dhuhr() < asr().                                    *)
C13_DawnSunriseMiddayAfternoon ==
    (Asked("asr") /\ ~result.panic /\ ~fajr(pt).panic /\ ~sunrise(pt).panic /\ ~dhuhr(pt).panic)
        => /\ Before(fajr(pt).time, sunrise(pt).time)
           /\ Before(sunrise(pt).time, dhuhr(pt).time)
           /\ Before(dhuhr(pt).time, result.time)

(* The Fajr and Isha degrees a description states: the number that       *)
(* follows "Fajr at" and the number that follows "Isha at".                 *)
StatedFajr(d) == d[3]
StatedIsha(d) == d[7]

(* C14: for every authority, the dawn angle fajr() uses equals the Fajr    *)
(* degrees stated in desc(), and for every authority with an angle-based    *)
(* night criterion the night angle isha() uses equals the Isha degrees      *)
(* stated in desc().                                                        *)
C14_AnglesAsDescribed ==
    /\ Asked("fajr") => fajr_angle(pt.auth) = StatedFajr(desc(pt.auth))
    /\ (Asked("isha") /\ isha_param(pt.auth).kind = "Angle")
           => isha_param(pt.auth).v = StatedIsha(desc(pt.auth))

(* The hour the query t passes to hour2time (the last one, for isha by a   *)
(* Duration and for midnight, which rest on the times of other queries).    *)
HourPassed(self, t) ==
    CASE t = "fajr" -> fajr_hour(self)
      [] t = "sunrise" -> sunrise_hour(self)
      [] t = "dhuhr" -> F(self_zenith(self))
      [] t = "asr" -> asr_hour(self)
      [] t = "maghrib" -> maghrib_hour(self)
      [] t = "isha" -> IF isha_param(self.auth).kind = "Angle"
                       THEN IshaAngleHour(self, isha_param(self.auth).v)
                       ELSE IshaDurationHour(maghrib(self))
      [] t = "midnight" ->
             MidHour(time2hour(sunrise(self).time), time2hour(maghrib(self).time))

(* The query t gets as far as its own call of hour2time: the queries it    *)
(* rests on have returned.                                                  *)
Converts(self, t) ==
    CASE t = "isha" -> isha_param(self.auth).kind = "Angle" \/ ~maghrib(self).panic
      [] t = "midnight" -> ~sunrise(self).panic /\ ~maghrib(self).panic
      [] OTHER -> TRUE

(* The f64 hour lies in [0, 24). *)
InDay(hour) == ~hour.nan /\ 0 <= hour.v /\ hour.v < DayTicks

(* C17: in every configuration reachable through new and the setters, each *)
(* fractional hour a timing query passes to hour2time lies in [0, 24).      *)
C17_HoursInDay ==
    \A t \in Timings : (Asked(t) /\ Converts(pt, t)) => InDay(HourPassed(pt, t))

(* C18: in every state reachable from new by with_date, with_timezone,     *)
(* with_authority and with_school, the cached Julian date is that of the    *)
(* configured date: jd = julian(date).                                      *)
C18_JdOfDate == pt.jd = julian(pt.date)

(* C18's case: with_date has replaced the date new() took from the clock,  *)
(* and a setter that leaves the date alone has followed.                    *)
C18_Witness ==
    /\ op \in {"with_timezone", "with_authority", "with_school"}
    /\ pt.date # today
    /\ pt.jd = julian(pt.date)
    /\ pt.jd # julian(today)

---------------------------------------------------------------------------
(* Properties of datetime::str2date, checked under SpecDate.               *)

(* Where the character "-" stands in s. *)
Dashes(s) == {i \in 1 .. Len(s) : s[i] = "-"}

(* seg writes an integer: one or more digits, after an optional "+". *)
Numeral(seg) ==
    LET digits == IF seg # <<>> /\ seg[1] = "+" THEN Tail(seg) ELSE seg
    IN  digits # <<>> /\ \A i \in 1 .. Len(digits) : digits[i] \in DOMAIN DigitValue

(* The integer a numeral writes, digit by digit from the left. *)
RECURSIVE ValueFrom(_, _, _)
ValueFrom(seg, i, acc) ==
    IF i > Len(seg) THEN acc
    ELSE IF seg[i] = "+" THEN ValueFrom(seg, i + 1, acc)
    ELSE ValueFrom(seg, i + 1, 10 * acc + DigitValue[seg[i]])

NumeralValue(seg) == ValueFrom(seg, 1, 0)

(* The year, month and day segments of a string with exactly two "-". *)
FirstDash(s) == CHOOSE i \in Dashes(s) : \A j \in Dashes(s) : i <= j
LastDash(s) == CHOOSE i \in Dashes(s) : \A j \in Dashes(s) : i >= j
YearOf(s) == SubSeq(s, 1, FirstDash(s) - 1)
MonthOf(s) == SubSeq(s, FirstDash(s) + 1, LastDash(s) - 1)
DayOf(s) == SubSeq(s, LastDash(s) + 1, Len(s))

(* The date such a string writes. *)
WrittenDate(s) ==
    NaiveDate(NumeralValue(YearOf(s)), NumeralValue(MonthOf(s)), NumeralValue(DayOf(s)))

(* s consists of exactly three "-"-separated segments that write an integer *)
(* year, month and day forming a date of the calendar.                      *)
IsDateString(s) ==
    /\ Cardinality(Dashes(s)) = 2
    /\ Numeral(YearOf(s)) /\ Numeral(MonthOf(s)) /\ Numeral(DayOf(s))
    /\ WrittenDate(s).month \in 1 .. 12
    /\ WrittenDate(s).day \in 1 .. DaysInMonth(WrittenDate(s).year, WrittenDate(s).month)

(* C15: str2date returns Ok(date) exactly when the input is the token      *)
(* "today" or consists of exactly three "-"-separated segments that parse   *)
(* as an integer year, month and day forming a valid calendar date, and     *)
(* then the date has that year, month and day; otherwise (wrong segment     *)
(* count, non-numeric segment, out-of-range date) it returns an error value *)
(* and no date.                                                             *)
C15_Str2DateParses ==
    conv.pc = "parsed" =>
        /\ conv.res.ok <=> (conv.date = <<"t", "o", "d", "a", "y">> \/ IsDateString(conv.date))
        /\ IsDateString(conv.date) => conv.res = DateOk(WrittenDate(conv.date))
        /\ ~conv.res.ok => conv.res = DateErr

(* C15's case: str2date has parsed 0-2-29, the leap day of year 0. *)
C15_Witness ==
    /\ conv.pc = "parsed"
    /\ conv.date = <<"0", "-", "2", "-", "2", "9">>
    /\ IsDateString(conv.date)
    /\ conv.res = DateOk(NaiveDate(0, 2, 29))

---------------------------------------------------------------------------
(* Properties of the name parsers, checked under SpecNames.                *)

(* The strings s and t are equal up to the case of their letters. *)
SameIgnoringCase(s, t) ==
    /\ Len(s) = Len(t)
    /\ \A i \in 1 .. Len(s) :
           s[i] = t[i] \/ <<s[i], t[i]>> \in Letters \/ <<t[i], s[i]>> \in Letters

=============================================================================
